---- MODULE Spec2Model ----
(***************************************************************************)
(* Window lifecycle and ordering manager of the YouOS desktop shell        *)
(* (src/os/desktop.py: ProgramWindow, WindowManager and the DesktopManager *)
(* handlers that drive them).                                              *)
(*                                                                         *)
(* The registry `windows` is a Python dict; it is modelled as a sequence   *)
(* of entries in insertion order, each entry holding the ProgramWindow     *)
(* object it references.  `z_order` is the Python list of ids.             *)
(***************************************************************************)
EXTENDS Integers, Sequences, FiniteSets, TLC

-----------------------------------------------------------------------------
(* Bounds of the model *)

\* window_counter is capped: create_window is enabled while it is below this
MaxCounter == 2

\* program names the shell launches
Programs == {"A", "B"}

\* the cascade is followed until window_counter reaches this, past the wrap
\* of the offset
MaxCascade == 11

\* windows closed while the cascade is followed
MaxCloses == 2

\* the taskbar icon is watched for this many steps of 100 ms
MaxTicks == 12

\* left-button presses on the taskbar icon
MaxPresses == 3

\* signals of worker threads waiting in the shell thread's event queue
MaxPosted == 1

\* the worker threads the shell starts (ProgramThread is declared in
\* desktop.py and constructed nowhere)
Workers == {"DownloadThread", "UpdateChecker", "UpdateDownloader"}

\* sizeHint() of the content widget each program hosts (a QSize; <<-1, -1>>
\* is the invalid QSize of a widget without a hint)
SizeHintOf(program_name) ==
    IF program_name = "A" THEN <<-1, -1>> ELSE <<1000, 400>>

\* sizes of the desktop widget (self.parent().rect())
DesktopSizes == {<<1920, 1080>>}

\* sizes of the desktop widget the maximized rectangle is computed on: two
\* screens, and a desktop too small for a window of the minimum size
ScreenSizes == {<<1920, 1080>>, <<1366, 768>>, <<410, 380>>}

-----------------------------------------------------------------------------
(* Program constants *)

MinWidth == 400
MinHeight == 300
DefaultWidth == 900
DefaultHeight == 650
HintFloorWidth == 800
HintFloorHeight == 600
HintPadWidth == 50
HintPadHeight == 90
CascadeBaseX == 100
CascadeBaseY == 80
CascadeStep == 30
CascadeWrap == 10
MaxMargin == 10
MaxShrinkWidth == 20
MaxShrinkHeight == 90
DoubleClickMs == 500
SingleClickDelayMs == 300

-----------------------------------------------------------------------------
VARIABLES
    windows,         \* WindowManager.windows: entries in dict insertion order
    window_counter,  \* WindowManager.window_counter
    z_order,         \* WindowManager.z_order
    desktop,         \* size <<width, height>> of the parent desktop widget
    refresh,         \* what DesktopManager.update_taskbar saw when it last ran
    raised,          \* exception the last call raised into its caller
    stale,           \* closed ProgramWindow objects awaiting deleteLater, by id
    issued,          \* every id create_window has returned so far
    maximized_once,  \* registered ids seen with is_maximized set since creation
    stacking,        \* the managed windows as Qt stacks them among the
                     \* desktop's children, bottom first
    icons,           \* Taskbar.icons: the TaskbarIcon of each program name
    pinned_apps,     \* DesktopManager.pinned_apps
    icon,            \* one TaskbarIcon: last_click_time, and the time its
                     \* click_timer is due (None while the timer is stopped)
    clock,           \* time.time() * 1000
    events,          \* the presses on the icon and the signals it emitted,
                     \* each with its time
    workers,         \* where each worker thread is in its run()
    posted,          \* signals emitted by worker threads, queued for the
                     \* shell thread
    last             \* the last call: operation, argument, result, and the
                     \* window object it was aimed at as it was before the call

vars == <<windows, window_counter, z_order, desktop, refresh, raised, stale,
          issued, maximized_once, stacking, icons, pinned_apps, icon, clock,
          events, workers, posted, last>>

-----------------------------------------------------------------------------
(* Python / Qt helpers *)

None == <<>>
Some(v) == <<v>>

Max(a, b) == IF a >= b THEN a ELSE b

Rect(x, y, w, h) == [x |-> x, y |-> y, w |-> w, h |-> h]

\* QSize.isValid(): both dimensions are >= 0
SizeIsValid(sz) == sz[1] >= 0 /\ sz[2] >= 0

\* bool(QRect) is QRect.isValid(): the rectangle is not empty
RectIsValid(r) == r.w > 0 /\ r.h > 0

\* truth value of self.normal_geometry (None, or a QRect)
Truthy(g) == g # None /\ RectIsValid(g[1])

\* QWidget.setGeometry / resize clamp the size to the minimum size
\* (setMinimumSize(400, 300))
ClampSize(r) == [r EXCEPT !.w = Max(@, MinWidth), !.h = Max(@, MinHeight)]

\* `e in list`
Contains(s, e) == \E i \in DOMAIN s : s[i] = e

\* list.remove(e): drops the first occurrence of e
ListRemove(s, e) ==
    LET i == CHOOSE k \in DOMAIN s : s[k] = e /\ \A j \in 1..(k - 1) : s[j] # e
    IN  SubSeq(s, 1, i - 1) \o SubSeq(s, i + 1, Len(s))

\* keys of the registry dict
Keys(ws) == {ws[i].window_id : i \in DOMAIN ws}

\* ws[id]
Entry(ws, id) == ws[CHOOSE i \in DOMAIN ws : ws[i].window_id = id]

\* del ws[id]
DictDel(ws, id) == SelectSeq(ws, LAMBDA e : e.window_id # id)

\* ws[id]['window'] = w, the in-place mutation of a ProgramWindow object
SetWindow(ws, id, w) ==
    [i \in DOMAIN ws |-> IF ws[i].window_id = id
                         THEN [ws[i] EXCEPT !.window = w] ELSE ws[i]]

\* f"{program_name}_{self.window_counter}"
WindowId(program_name, n) == program_name \o "_" \o ToString(n)

\* every id create_window can return
AllIds == {WindowId(p, n) : p \in Programs, n \in 1..MaxCounter}

\* an id create_window never returns: the counter starts at 1
UnknownId == WindowId("A", 0)

-----------------------------------------------------------------------------
(* ProgramWindow: the window object (desktop.py 62-238) *)

\* ProgramWindow.__init__: flags cleared, no saved geometry, size from the
\* content's size hint; a new child widget sits at (0, 0) and is hidden
ProgramWindow_init(hint) ==
    [is_minimized    |-> FALSE,
     is_maximized    |-> FALSE,
     normal_geometry |-> None,
     geometry        |-> IF SizeIsValid(hint)
                         THEN ClampSize(Rect(0, 0,
                                  Max(HintFloorWidth, hint[1] + HintPadWidth),
                                  Max(HintFloorHeight, hint[2] + HintPadHeight)))
                         ELSE ClampSize(Rect(0, 0, DefaultWidth, DefaultHeight)),
     visible         |-> FALSE]

\* QWidget.move
Move(w, x, y) == [w EXCEPT !.geometry.x = x, !.geometry.y = y]

\* QWidget.show / QWidget.hide (the desktop itself is shown)
Show(w) == [w EXCEPT !.visible = TRUE]
Hide(w) == [w EXCEPT !.visible = FALSE]

\* QWidget.setGeometry
SetGeometry(w, r) == [w EXCEPT !.geometry = ClampSize(r)]

\* a minimize that sets the indicator and leaves the window on screen
ProgramWindow_minimize_stays_shown(w) == [w EXCEPT !.is_minimized = TRUE]

\* a minimize that also drops the maximized indicator
ProgramWindow_minimize_resets_maximized(w) ==
    Hide([w EXCEPT !.is_minimized = TRUE, !.is_maximized = FALSE])

\* ProgramWindow.minimize, up to the emission of `minimized`
ProgramWindow_minimize(w) == Hide([w EXCEPT !.is_minimized = TRUE])

\* a restore that always comes back as a normal window
ProgramWindow_restore_to_normal(w) ==
    Show([w EXCEPT !.is_minimized = FALSE, !.is_maximized = FALSE])

\* ProgramWindow.restore, up to the emission of `focused`
ProgramWindow_restore(w) == Show([w EXCEPT !.is_minimized = FALSE])

\* a maximized rectangle that starts in the desktop's corner
MaximizedRect_without_margin(d) ==
    Rect(0, 0, d[1] - MaxShrinkWidth, d[2] - MaxShrinkHeight)

\* the rectangle toggle_maximize gives a maximized window
MaximizedRect(d) ==
    Rect(MaxMargin, MaxMargin, d[1] - MaxShrinkWidth, d[2] - MaxShrinkHeight)

\* a toggle_maximize that saves the geometry only after it has set the
\* maximized rectangle
ProgramWindow_toggle_maximize_saves_late(w, d) ==
    IF w.is_maximized
    THEN [(IF Truthy(w.normal_geometry)
           THEN SetGeometry(w, w.normal_geometry[1])
           ELSE w) EXCEPT !.is_maximized = FALSE]
    ELSE LET m == SetGeometry(w, MaximizedRect(d))
         IN  [m EXCEPT !.normal_geometry = Some(m.geometry),
                       !.is_maximized = TRUE]

\* a toggle_maximize that clears the saved geometry when it un-maximizes
ProgramWindow_toggle_maximize_clears_saved(w, d) ==
    IF w.is_maximized
    THEN [(IF Truthy(w.normal_geometry)
           THEN SetGeometry(w, w.normal_geometry[1])
           ELSE w) EXCEPT !.is_maximized = FALSE, !.normal_geometry = None]
    ELSE [SetGeometry([w EXCEPT !.normal_geometry = Some(w.geometry)],
                      MaximizedRect(d))
          EXCEPT !.is_maximized = TRUE]

\* a toggle_maximize that un-maximizes without setting the rectangle back
ProgramWindow_toggle_maximize_keeps_rect(w, d) ==
    IF w.is_maximized
    THEN [w EXCEPT !.is_maximized = FALSE]
    ELSE [SetGeometry([w EXCEPT !.normal_geometry = Some(w.geometry)],
                      MaximizedRect(d))
          EXCEPT !.is_maximized = TRUE]

\* ProgramWindow.toggle_maximize on a desktop of size d
ProgramWindow_toggle_maximize(w, d) ==
    IF w.is_maximized
    THEN [(IF Truthy(w.normal_geometry)
           THEN SetGeometry(w, w.normal_geometry[1])
           ELSE w) EXCEPT !.is_maximized = FALSE]
    ELSE [SetGeometry([w EXCEPT !.normal_geometry = Some(w.geometry)],
                      MaximizedRect(d))
          EXCEPT !.is_maximized = TRUE]

\* TaskbarIcon.__init__: the flags of a new taskbar icon
TaskbarIcon_init(is_running, is_pinned) ==
    [is_running |-> is_running, is_pinned |-> is_pinned]

\* TaskbarIcon.mousePressEvent for the left button at current_time; emitted
\* lists the signals the call emits
TaskbarIcon_mousePressEvent(ic, current_time) ==
    IF current_time - ic.last_click_time < DoubleClickMs
    THEN [last_click_time |-> 0,
          click_timer     |-> None,
          emitted         |-> <<"double_clicked">>]
    ELSE [last_click_time |-> current_time,
          click_timer     |-> Some(current_time + SingleClickDelayMs),
          emitted         |-> <<>>]

\* TaskbarIcon.handle_single_click, the slot of the single-shot click_timer
TaskbarIcon_handle_single_click(ic) ==
    [last_click_time |-> ic.last_click_time,
     click_timer     |-> None,
     emitted         |-> <<"clicked">>]

\* the state the two booleans encode
StateOf(w) == IF w.is_minimized THEN "Minimized"
              ELSE IF w.is_maximized THEN "Maximized" ELSE "Normal"

-----------------------------------------------------------------------------
(* WindowManager (desktop.py 261-344).  Its operations are written as       *)
(* functions of the shell's state s = [windows, window_counter, z_order,   *)
(* refresh, raised, stale, stacking, icons, pinned_apps, workers, posted,  *)
(* notified, ret]; ret is the value the call returns and notified counts   *)
(* the taskbar refreshes the call has made.                                *)

\* a get_windows_for_program that lists the newest window first
get_windows_for_program_newest_first(ws, program_name) ==
    LET match == SelectSeq(ws, LAMBDA e : e.program_name = program_name)
    IN  [i \in DOMAIN match |-> match[Len(match) + 1 - i].window_id]

\* WindowManager.get_windows_for_program: the dict is walked in insertion order
get_windows_for_program(ws, program_name) ==
    LET match == SelectSeq(ws, LAMBDA e : e.program_name = program_name)
    IN  [i \in DOMAIN match |-> match[i].window_id]

\* a Taskbar.update_taskbar that leaves the icons it already has as they are
Taskbar_update_taskbar_keeps_flags(old, running_apps, pinned) ==
    LET all_apps == running_apps \cup pinned
    IN  [name \in all_apps |->
            IF name \in DOMAIN old
            THEN old[name]
            ELSE TaskbarIcon_init(name \in running_apps, name \in pinned)]

\* Taskbar.update_taskbar: icons of programs neither running nor pinned are
\* deleted, missing icons are made, the others get their flags set
Taskbar_update_taskbar(old, running_apps, pinned) ==
    LET all_apps == running_apps \cup pinned
        kept     == [name \in (DOMAIN old) \cap all_apps |-> old[name]]
    IN  [name \in all_apps |->
            IF name \in DOMAIN kept
            THEN [kept[name] EXCEPT !.is_running = name \in running_apps,
                                    !.is_pinned = name \in pinned]
            ELSE TaskbarIcon_init(name \in running_apps, name \in pinned)]

\* a get_running_programs that leaves out the programs whose windows are all
\* minimized
get_running_programs_shown_only(ws) ==
    {ws[i].program_name : i \in {k \in DOMAIN ws : ~ws[k].window.is_minimized}}

\* WindowManager.get_running_programs
get_running_programs(ws) == {ws[i].program_name : i \in DOMAIN ws}

\* DesktopManager.update_taskbar: reads the manager and redraws the taskbar;
\* keys and stacked record the ids the registry and the z-order held at that
\* moment
update_taskbar(s) ==
    LET running_names == get_running_programs(s.windows)
    IN  [s EXCEPT !.refresh = [running_names |-> running_names,
                               keys          |-> Keys(s.windows),
                               stacked       |-> {s.z_order[i] : i \in DOMAIN s.z_order}],
                  !.icons = Taskbar_update_taskbar(s.icons, running_names,
                                                   s.pinned_apps),
                  !.notified = @ + 1]

\* QWidget.raise_ of the window registered as window_id: it becomes the top
\* one of the desktop's children
Raise(s, window_id) ==
    [s EXCEPT !.stacking = Append(SelectSeq(@, LAMBDA e : e # window_id),
                                  window_id)]

\* the loop that ends bring_to_front: raise_ on every registered window of
\* ids, first to last
RECURSIVE RaiseEach(_, _)
RaiseEach(s, ids) ==
    IF ids = <<>> THEN s
    ELSE RaiseEach(IF Head(ids) \in Keys(s.windows)
                   THEN Raise(s, Head(ids)) ELSE s,
                   Tail(ids))

\* a bring_to_front without the membership tests: list.remove of a missing
\* id raises
bring_to_front_unguarded(s, window_id) ==
    IF Contains(s.z_order, window_id)
    THEN LET z == Append(ListRemove(s.z_order, window_id), window_id)
         IN  RaiseEach([s EXCEPT !.z_order = z], z)
    ELSE [s EXCEPT !.raised = "ValueError"]

\* a bring_to_front that moves the id to the head of the list
bring_to_front_to_head(s, window_id) ==
    IF window_id \in Keys(s.windows) /\ Contains(s.z_order, window_id)
    THEN LET z == <<window_id>> \o ListRemove(s.z_order, window_id)
         IN  RaiseEach([s EXCEPT !.z_order = z], z)
    ELSE s

\* a bring_to_front that appends the id without removing it first
bring_to_front_keeps_old(s, window_id) ==
    IF window_id \in Keys(s.windows) /\ Contains(s.z_order, window_id)
    THEN LET z == Append(s.z_order, window_id)
         IN  RaiseEach([s EXCEPT !.z_order = z], z)
    ELSE s

\* a bring_to_front that reorders the list and raises no window
bring_to_front_without_raise(s, window_id) ==
    IF window_id \in Keys(s.windows) /\ Contains(s.z_order, window_id)
    THEN [s EXCEPT !.z_order = Append(ListRemove(s.z_order, window_id), window_id)]
    ELSE s

\* WindowManager.bring_to_front
bring_to_front(s, window_id) ==
    IF window_id \in Keys(s.windows) /\ Contains(s.z_order, window_id)
    THEN LET z == Append(ListRemove(s.z_order, window_id), window_id)
         IN  RaiseEach([s EXCEPT !.z_order = z], z)
    ELSE s

\* a create_window that takes the cascade offset from the counter
create_window_cascades_by_counter(s, program_name, hint) ==
    LET counter   == s.window_counter + 1
        window_id == WindowId(program_name, counter)
        offset    == (s.window_counter % CascadeWrap) * CascadeStep
        window    == Move(ProgramWindow_init(hint),
                          CascadeBaseX + offset, CascadeBaseY + offset)
        entry     == [window_id    |-> window_id,
                      window       |-> Show(window),
                      program_name |-> program_name]
    IN  [s EXCEPT !.window_counter = counter,
                  !.windows = Append(s.windows, entry),
                  !.z_order = Append(s.z_order, window_id),
                  !.stacking = Append(SelectSeq(@, LAMBDA e : e # window_id),
                                      window_id),
                  !.ret = Some(window_id)]

\* a create_window that puts the new id under the others
create_window_at_bottom(s, program_name, hint) ==
    LET counter   == s.window_counter + 1
        window_id == WindowId(program_name, counter)
        offset    == (Len(s.windows) % CascadeWrap) * CascadeStep
        window    == Move(ProgramWindow_init(hint),
                          CascadeBaseX + offset, CascadeBaseY + offset)
        entry     == [window_id    |-> window_id,
                      window       |-> Show(window),
                      program_name |-> program_name]
    IN  [s EXCEPT !.window_counter = counter,
                  !.windows = Append(s.windows, entry),
                  !.z_order = <<window_id>> \o s.z_order,
                  !.stacking = Append(SelectSeq(@, LAMBDA e : e # window_id),
                                      window_id),
                  !.ret = Some(window_id)]

\* a create_window that numbers the new id by the count of open windows
create_window_counts_open(s, program_name, hint) ==
    LET window_id == WindowId(program_name, Len(s.windows) + 1)
        offset    == (Len(s.windows) % CascadeWrap) * CascadeStep
        window    == Move(ProgramWindow_init(hint),
                          CascadeBaseX + offset, CascadeBaseY + offset)
        entry     == [window_id    |-> window_id,
                      window       |-> Show(window),
                      program_name |-> program_name]
    IN  [s EXCEPT !.window_counter = s.window_counter + 1,
                  !.windows = IF window_id \in Keys(s.windows)
                              THEN [i \in DOMAIN s.windows |->
                                      IF s.windows[i].window_id = window_id
                                      THEN entry ELSE s.windows[i]]
                              ELSE Append(s.windows, entry),
                  !.z_order = Append(s.z_order, window_id),
                  !.stacking = Append(SelectSeq(@, LAMBDA e : e # window_id),
                                      window_id),
                  !.ret = Some(window_id)]

\* WindowManager.create_window
create_window(s, program_name, hint) ==
    LET counter   == s.window_counter + 1
        window_id == WindowId(program_name, counter)
        offset    == (Len(s.windows) % CascadeWrap) * CascadeStep
        window    == Move(ProgramWindow_init(hint),
                          CascadeBaseX + offset, CascadeBaseY + offset)
        entry     == [window_id    |-> window_id,
                      window       |-> Show(window),
                      program_name |-> program_name]
    IN  [s EXCEPT !.window_counter = counter,
                  !.windows = IF window_id \in Keys(s.windows)
                              THEN [i \in DOMAIN s.windows |->
                                      IF s.windows[i].window_id = window_id
                                      THEN entry ELSE s.windows[i]]
                              ELSE Append(s.windows, entry),
                  !.z_order = Append(s.z_order, window_id),
                  !.stacking = Append(SelectSeq(@, LAMBDA e : e # window_id),
                                      window_id),
                  !.ret = Some(window_id)]

\* a close_window that refreshes the taskbar before it has taken the id off
\* the z-order
close_window_refreshes_early(s, window_id) ==
    IF window_id \in Keys(s.windows)
    THEN LET s1 == update_taskbar(
                       [s EXCEPT !.windows = DictDel(s.windows, window_id)])
         IN  IF Contains(s1.z_order, window_id)
             THEN [s1 EXCEPT !.z_order = ListRemove(s1.z_order, window_id)]
             ELSE s1
    ELSE s

\* a close_window without the membership test: `del` of a missing key raises
close_window_unguarded(s, window_id) ==
    IF window_id \in Keys(s.windows)
    THEN update_taskbar(
             [s EXCEPT !.windows = DictDel(s.windows, window_id),
                       !.z_order = IF Contains(s.z_order, window_id)
                                   THEN ListRemove(s.z_order, window_id)
                                   ELSE s.z_order])
    ELSE [s EXCEPT !.raised = "KeyError"]

\* WindowManager.close_window
close_window(s, window_id) ==
    IF window_id \in Keys(s.windows)
    THEN LET s1 == [s EXCEPT !.windows = DictDel(s.windows, window_id)]
             s2 == IF Contains(s1.z_order, window_id)
                   THEN [s1 EXCEPT !.z_order = ListRemove(s1.z_order, window_id)]
                   ELSE s1
         IN  update_taskbar(s2)
    ELSE s

\* an on_window_minimized that sends the minimized window to the bottom of
\* the z-order
on_window_minimized_to_back(s, window_id) ==
    IF Contains(s.z_order, window_id)
    THEN [s EXCEPT !.z_order = <<window_id>> \o ListRemove(s.z_order, window_id)]
    ELSE s

\* WindowManager.on_window_minimized
on_window_minimized(s, window_id) == s

\* ProgramWindow.minimize of the window registered as window_id; the
\* `minimized` signal runs on_window_minimized
minimize(s, window_id) ==
    LET w == Entry(s.windows, window_id).window
    IN  on_window_minimized(
            [s EXCEPT !.windows = SetWindow(s.windows, window_id,
                                            ProgramWindow_minimize(w))],
            window_id)

\* a restore that does not emit `focused`
restore_without_focus(s, window_id) ==
    LET w == Entry(s.windows, window_id).window
    IN  Raise([s EXCEPT !.windows = SetWindow(s.windows, window_id,
                                              ProgramWindow_restore(w))],
              window_id)

\* ProgramWindow.restore of the window registered as window_id; the
\* `focused` signal runs bring_to_front
restore(s, window_id) ==
    LET w == Entry(s.windows, window_id).window
    IN  bring_to_front(
            Raise([s EXCEPT !.windows = SetWindow(s.windows, window_id,
                                                  ProgramWindow_restore(w))],
                  window_id),
            window_id)

\* ProgramWindow.toggle_maximize of the window registered as window_id
toggle_maximize(s, window_id, d) ==
    LET w == Entry(s.windows, window_id).window
    IN  [s EXCEPT !.windows = SetWindow(s.windows, window_id,
                                        ProgramWindow_toggle_maximize(w, d))]

\* ProgramWindow.close_window of a registered window: the `closed` signal
\* runs WindowManager.close_window, then deleteLater leaves the object alive
\* until the event loop deletes it; the object is no managed window any
\* more and leaves the stacking of the managed ones
ProgramWindow_close_window(s, window_id) ==
    LET w  == Entry(s.windows, window_id).window
        s1 == close_window(s, window_id)
    IN  [s1 EXCEPT !.stale = (window_id :> w) @@ s1.stale,
                   !.stacking = SelectSeq(@, LAMBDA e : e # window_id)]

\* ProgramWindow.minimize of a closed window object that is not yet deleted
stale_minimize(s, window_id) ==
    on_window_minimized(
        [s EXCEPT !.stale[window_id] = ProgramWindow_minimize(@)], window_id)

\* ProgramWindow.restore of a closed window object that is not yet deleted
stale_restore(s, window_id) ==
    bring_to_front(
        [s EXCEPT !.stale[window_id] = ProgramWindow_restore(@)], window_id)

\* a focus_or_restore_program that never hides a window
focus_or_restore_program_only_restores(s, program_name) ==
    LET ids == get_windows_for_program(s.windows, program_name)
    IN  IF ids # <<>> THEN restore(s, ids[1]) ELSE s

\* a focus_or_restore_program that takes the newest window of the program
focus_or_restore_program_picks_latest(s, program_name) ==
    LET ids == get_windows_for_program(s.windows, program_name)
    IN  IF ids # <<>>
        THEN LET window_id == ids[Len(ids)]
                 window    == Entry(s.windows, window_id).window
             IN  IF window.is_minimized
                 THEN restore(s, window_id)
                 ELSE IF window.visible
                      THEN minimize(s, window_id)
                      ELSE restore(s, window_id)
        ELSE s

\* WindowManager.focus_or_restore_program
focus_or_restore_program(s, program_name) ==
    LET ids == get_windows_for_program(s.windows, program_name)
    IN  IF ids # <<>>
        THEN LET window_id == ids[1]
                 window    == Entry(s.windows, window_id).window
             IN  IF window.is_minimized
                 THEN restore(s, window_id)
                 ELSE IF window.visible
                      THEN minimize(s, window_id)
                      ELSE restore(s, window_id)
        ELSE s

\* the loop of close_app_instances: close_window on the window of every id
\* that is still registered
RECURSIVE CloseEach(_, _)
CloseEach(s, ids) ==
    IF ids = <<>> THEN s
    ELSE CloseEach(IF Head(ids) \in Keys(s.windows)
                   THEN ProgramWindow_close_window(s, Head(ids)) ELSE s,
                   Tail(ids))

\* a close_app_instances that closes the earliest window of the program only
close_app_instances_first_only(s, name) ==
    LET ids == get_windows_for_program(s.windows, name)
    IN  update_taskbar(CloseEach(s, IF ids = <<>> THEN ids ELSE <<ids[1]>>))

\* DesktopManager.close_app_instances
close_app_instances(s, name) ==
    update_taskbar(CloseEach(s, get_windows_for_program(s.windows, name)))

\* DesktopManager.on_pin_toggled (save_user_state writes the user file and
\* changes nothing here)
on_pin_toggled(s, name, pinned) ==
    update_taskbar([s EXCEPT !.pinned_apps = IF pinned THEN @ \cup {name}
                                             ELSE @ \ {name}])

\* signal.emit in a worker thread: the receivers live in the shell thread,
\* so the call is queued for the shell thread's event loop
emit(s, thread, signal) ==
    [s EXCEPT !.posted = Append(@, [from |-> thread, signal |-> signal])]

\* QThread.start, called by the shell thread
start(s, thread) == [s EXCEPT !.workers[thread] = "started"]

\* a DownloadThread.run that closes the first window when the download fails
DownloadThread_run_closes_window(s, ok) ==
    LET pc == s.workers["DownloadThread"]
    IN  IF pc = "started"
        THEN emit([s EXCEPT !.workers["DownloadThread"] = "downloading"],
                  "DownloadThread", "status")
        ELSE IF ok
             THEN emit(s, "DownloadThread", "progress")
             ELSE emit(IF s.windows # <<>>
                       THEN close_window(
                                [s EXCEPT !.workers["DownloadThread"] = "done"],
                                s.windows[1].window_id)
                       ELSE [s EXCEPT !.workers["DownloadThread"] = "done"],
                       "DownloadThread", "finished")

\* DownloadThread.run up to its next emit: status first, then progress for
\* each file, then finished; ok is false when the files are through or a
\* request has raised
DownloadThread_run(s, ok) ==
    LET pc == s.workers["DownloadThread"]
    IN  IF pc = "started"
        THEN emit([s EXCEPT !.workers["DownloadThread"] = "downloading"],
                  "DownloadThread", "status")
        ELSE IF ok
             THEN emit(s, "DownloadThread", "progress")
             ELSE emit([s EXCEPT !.workers["DownloadThread"] = "done"],
                       "DownloadThread", "finished")

\* UpdateChecker.run up to its next emit: updates_available when the check
\* has found updates (ok), then check_complete, then an hour of sleep and
\* the next check
UpdateChecker_run(s, ok) ==
    LET pc == s.workers["UpdateChecker"]
    IN  IF pc = "started" /\ ok
        THEN emit([s EXCEPT !.workers["UpdateChecker"] = "found"],
                  "UpdateChecker", "updates_available")
        ELSE emit([s EXCEPT !.workers["UpdateChecker"] = "started"],
                  "UpdateChecker", "check_complete")

\* UpdateDownloader.run up to its next emit: progress_update for each file,
\* then update_complete; ok is false when the files are through or one has
\* failed
UpdateDownloader_run(s, ok) ==
    IF ok
    THEN emit(s, "UpdateDownloader", "progress_update")
    ELSE emit([s EXCEPT !.workers["UpdateDownloader"] = "done"],
              "UpdateDownloader", "update_complete")

\* the run() of a worker thread
run(s, thread, ok) ==
    IF thread = "DownloadThread" THEN DownloadThread_run(s, ok)
    ELSE IF thread = "UpdateChecker" THEN UpdateChecker_run(s, ok)
    ELSE UpdateDownloader_run(s, ok)

\* the shell thread's event loop runs the slots of the first queued signal:
\* progress bars, message boxes and notifications, no call of the manager
deliver(s) == [s EXCEPT !.posted = Tail(@)]

-----------------------------------------------------------------------------
(* The state machine *)

\* the manager's state at the start of a handler the event loop dispatches:
\* control has returned to the event loop since the last close, so the
\* deferred deletes have run and no closed object is left
Self == [windows        |-> windows,
         window_counter |-> window_counter,
         z_order        |-> z_order,
         refresh        |-> refresh,
         raised         |-> "none",
         stale          |-> <<>>,
         stacking       |-> stacking,
         icons          |-> icons,
         pinned_apps    |-> pinned_apps,
         workers        |-> workers,
         posted         |-> posted,
         notified       |-> 0,
         ret            |-> None]

\* the manager's state at the start of a call made before control returns to
\* the event loop: the objects closed in this turn are still alive
SameTurn == [Self EXCEPT !.stale = stale]

\* the registered window object of window_id, if there is one
WindowOf(ws, window_id) ==
    IF window_id \in Keys(ws) THEN Some(Entry(ws, window_id).window) ELSE None

\* the call ends in state s; `last` records the call
Return(s, op, arg, ret, pre) ==
    /\ windows' = s.windows
    /\ window_counter' = s.window_counter
    /\ z_order' = s.z_order
    /\ refresh' = s.refresh
    /\ raised' = s.raised
    /\ stale' = s.stale
    /\ stacking' = s.stacking
    /\ icons' = s.icons
    /\ pinned_apps' = s.pinned_apps
    /\ workers' = s.workers
    /\ posted' = s.posted
    /\ issued' = IF op = "create_window" THEN issued \cup {ret[1]} ELSE issued
    /\ maximized_once' =
           {id \in Keys(s.windows) :
               id \in maximized_once \/ Entry(s.windows, id).window.is_maximized}
    /\ last' = [op |-> op, arg |-> arg, ret |-> ret, pre |-> pre,
                 notified |-> s.notified]
    /\ UNCHANGED <<desktop, icon, clock, events>>

\* a new taskbar icon nobody has pressed, the clock past the first 500 ms
\* of the epoch; no worker thread started
IconIdle ==
    /\ icon = [last_click_time |-> 0, click_timer |-> None]
    /\ clock = 1000
    /\ events = <<>>
    /\ workers = [thread \in Workers |-> "idle"]
    /\ posted = <<>>

\* WindowManager.__init__ and DesktopManager.__init__, which ends with a
\* first update_taskbar
Init ==
    /\ windows = <<>>
    /\ window_counter = 0
    /\ z_order = <<>>
    /\ desktop \in DesktopSizes
    /\ refresh = [running_names |-> {}, keys |-> {}, stacked |-> {}]
    /\ raised = "none"
    /\ stale = <<>>
    /\ issued = {}
    /\ maximized_once = {}
    /\ stacking = <<>>
    /\ pinned_apps = {}
    /\ icons = Taskbar_update_taskbar(<<>>, {}, pinned_apps)
    /\ last = [op |-> "init", arg |-> "", ret |-> None, pre |-> None,
                notified |-> 1]
    /\ IconIdle

\* DesktopManager.launch_program and its siblings: create_window, then
\* update_taskbar
LaunchProgram(program_name) ==
    /\ window_counter < MaxCounter
    /\ Return(update_taskbar(create_window(Self, program_name,
                                           SizeHintOf(program_name))),
              "create_window", program_name,
              create_window(Self, program_name, SizeHintOf(program_name)).ret,
              None)

\* the ids a signal or a call can carry: those of the windows created so
\* far, open or closed, and one id that was never created
CallableIds == issued \cup {UnknownId}

\* the close button of a window (ProgramWindow.close_window), or a `closed`
\* signal that carries an id that is not registered
CloseWindow(window_id) ==
    Return(IF window_id \in Keys(windows)
           THEN ProgramWindow_close_window(Self, window_id)
           ELSE close_window(SameTurn, window_id),
           "close_window", window_id, None, WindowOf(windows, window_id))

\* ProgramWindow.minimize called on a closed window object
StaleMinimize(window_id) ==
    /\ window_id \in DOMAIN stale
    /\ Return(stale_minimize(SameTurn, window_id),
              "stale_minimize", window_id, None, Some(stale[window_id]))

\* ProgramWindow.restore called on a closed window object
StaleRestore(window_id) ==
    /\ window_id \in DOMAIN stale
    /\ Return(stale_restore(SameTurn, window_id),
              "stale_restore", window_id, None, Some(stale[window_id]))


\* the `focused` signal of a window (mousePressEvent), or any other call of
\* bring_to_front
BringToFront(window_id) ==
    Return(bring_to_front(IF window_id \in Keys(windows) THEN Self ELSE SameTurn,
                          window_id),
           "bring_to_front", window_id, None, WindowOf(windows, window_id))

\* the minimize button, or any other call of ProgramWindow.minimize
Minimize(window_id) ==
    /\ window_id \in Keys(windows)
    /\ Return(minimize(Self, window_id),
              "minimize", window_id, None, WindowOf(windows, window_id))

\* a call of ProgramWindow.restore
Restore(window_id) ==
    /\ window_id \in Keys(windows)
    /\ Return(restore(Self, window_id),
              "restore", window_id, None, WindowOf(windows, window_id))

\* the maximize button or a title-bar double click
ToggleMaximize(window_id) ==
    /\ window_id \in Keys(windows)
    /\ Return(toggle_maximize(Self, window_id, desktop),
              "toggle_maximize", window_id, None, WindowOf(windows, window_id))

\* DesktopManager.handle_taskbar_single_click on a running program, or any
\* other call of focus_or_restore_program
FocusOrRestoreProgram(program_name) ==
    LET ids == get_windows_for_program(windows, program_name)
    IN  Return(focus_or_restore_program(Self, program_name),
               "focus_or_restore_program", program_name,
               IF ids # <<>> THEN Some(ids[1]) ELSE None,
               IF ids # <<>> THEN WindowOf(windows, ids[1]) ELSE None)

Next ==
    \/ \E p \in Programs : LaunchProgram(p)
    \/ \E id \in CallableIds : CloseWindow(id)
    \/ \E id \in CallableIds : BringToFront(id)
    \/ \E id \in AllIds : Minimize(id)
    \/ \E id \in AllIds : Restore(id)
    \/ \E id \in AllIds : ToggleMaximize(id)
    \/ \E p \in Programs : FocusOrRestoreProgram(p)
    \/ \E id \in AllIds : StaleMinimize(id)
    \/ \E id \in AllIds : StaleRestore(id)

Spec == Init /\ [][Next]_vars

-----------------------------------------------------------------------------
(* The cascade: one program launched again and again, a few windows closed *)

\* DesktopManager.launch_program of program "A", up to MaxCascade launches
CascadeLaunch ==
    /\ window_counter < MaxCascade
    /\ Return(update_taskbar(create_window(Self, "A", SizeHintOf("A"))),
              "create_window", "A",
              create_window(Self, "A", SizeHintOf("A")).ret,
              None)

\* the close button of a registered window, up to MaxCloses times
CascadeClose(window_id) ==
    /\ window_id \in Keys(windows)
    /\ window_counter - Len(windows) < MaxCloses
    /\ CloseWindow(window_id)

CascadeNext ==
    \/ CascadeLaunch
    \/ \E n \in 1..MaxCascade : CascadeClose(WindowId("A", n))

CascadeSpec == Init /\ [][CascadeNext]_vars

-----------------------------------------------------------------------------
(* One taskbar icon, the clock and the presses on the icon *)

\* the signals of a call, stamped with the time
Stamped(emitted, at) ==
    [i \in DOMAIN emitted |-> [kind |-> emitted[i], at |-> at]]

\* the number of presses so far
Pressed == Len(SelectSeq(events, LAMBDA e : e.kind = "press"))

\* a left-button press on the icon: mousePressEvent
Press ==
    /\ Pressed < MaxPresses
    /\ LET r == TaskbarIcon_mousePressEvent(icon, clock)
       IN  /\ icon' = [last_click_time |-> r.last_click_time,
                       click_timer     |-> r.click_timer]
           /\ events' = events \o <<[kind |-> "press", at |-> clock]>>
                                \o Stamped(r.emitted, clock)
    /\ UNCHANGED <<windows, window_counter, z_order, desktop, refresh, raised,
                   stale, issued, maximized_once, stacking, icons,
                   pinned_apps, clock, workers, posted, last>>

\* the click_timer is due: handle_single_click
Timeout ==
    /\ icon.click_timer # None
    /\ icon.click_timer[1] = clock
    /\ LET r == TaskbarIcon_handle_single_click(icon)
       IN  /\ icon' = [last_click_time |-> r.last_click_time,
                       click_timer     |-> r.click_timer]
           /\ events' = events \o Stamped(r.emitted, clock)
    /\ UNCHANGED <<windows, window_counter, z_order, desktop, refresh, raised,
                   stale, issued, maximized_once, stacking, icons,
                   pinned_apps, clock, workers, posted, last>>

\* 100 ms pass; a timer that is due fires before more time passes
Tick ==
    /\ clock < 1000 + 100 * MaxTicks
    /\ icon.click_timer # None => clock < icon.click_timer[1]
    /\ clock' = clock + 100
    /\ UNCHANGED <<windows, window_counter, z_order, desktop, refresh, raised,
                   stale, issued, maximized_once, stacking, icons,
                   pinned_apps, icon, events, workers, posted, last>>

IconNext == Press \/ Timeout \/ Tick

IconSpec == Init /\ [][IconNext]_vars

-----------------------------------------------------------------------------
(* Worker threads beside the shell thread *)

\* the shell thread starts a worker
StartWorker(thread) ==
    /\ workers[thread] = "idle"
    /\ Return(start(Self, thread), "start", thread, None, None)

\* a worker thread runs up to its next emit
RunWorker(thread, ok) ==
    /\ workers[thread] \notin {"idle", "done"}
    /\ Len(posted) < MaxPosted
    /\ Return(run(SameTurn, thread, ok), "run", thread, None, None)

\* the shell thread takes a queued signal
Deliver ==
    /\ posted # <<>>
    /\ Return(deliver(Self), "deliver", Head(posted).signal, None, None)

WorkerNext ==
    \/ LaunchProgram("A")
    \/ \E id \in CallableIds : CloseWindow(id)
    \/ \E thread \in Workers : StartWorker(thread)
    \/ \E thread \in Workers, ok \in BOOLEAN : RunWorker(thread, ok)
    \/ Deliver

WorkerSpec == Init /\ [][WorkerNext]_vars

-----------------------------------------------------------------------------
(* Maximizing on desktops of several sizes *)

\* as Init, on a desktop of any of the screen sizes
MaximizeInit ==
    /\ windows = <<>>
    /\ window_counter = 0
    /\ z_order = <<>>
    /\ desktop \in ScreenSizes
    /\ refresh = [running_names |-> {}, keys |-> {}, stacked |-> {}]
    /\ raised = "none"
    /\ stale = <<>>
    /\ issued = {}
    /\ maximized_once = {}
    /\ stacking = <<>>
    /\ pinned_apps = {}
    /\ icons = Taskbar_update_taskbar(<<>>, {}, pinned_apps)
    /\ last = [op |-> "init", arg |-> "", ret |-> None, pre |-> None,
                notified |-> 1]
    /\ IconIdle

MaximizeNext ==
    \/ \E p \in Programs : LaunchProgram(p)
    \/ \E id \in AllIds : ToggleMaximize(id)
    \/ \E id \in AllIds : Minimize(id)
    \/ \E id \in AllIds : Restore(id)

MaximizeSpec == MaximizeInit /\ [][MaximizeNext]_vars

-----------------------------------------------------------------------------
(* The shell with its taskbar: launches, closes, pins *)

\* the "Close all" entry of a taskbar icon's menu
CloseAppInstances(name) ==
    Return(close_app_instances(Self, name),
           "close_app_instances", name, None, None)

\* the pin entry of a taskbar, desktop or start-menu icon's menu
PinToggle(name, pinned) ==
    Return(on_pin_toggled(Self, name, pinned),
           "on_pin_toggled", name, Some(pinned), None)

\* DesktopManager.__init__: load_user_state reads the pinned programs of the
\* user, then the first update_taskbar runs
ShellInit ==
    /\ windows = <<>>
    /\ window_counter = 0
    /\ z_order = <<>>
    /\ desktop \in DesktopSizes
    /\ refresh = [running_names |-> {}, keys |-> {}, stacked |-> {}]
    /\ raised = "none"
    /\ stale = <<>>
    /\ issued = {}
    /\ maximized_once = {}
    /\ stacking = <<>>
    /\ pinned_apps \in SUBSET Programs
    /\ icons = Taskbar_update_taskbar(<<>>, {}, pinned_apps)
    /\ last = [op |-> "init", arg |-> "", ret |-> None, pre |-> None,
                notified |-> 1]
    /\ IconIdle

ShellNext ==
    \/ \E p \in Programs : LaunchProgram(p)
    \/ \E id \in CallableIds : CloseWindow(id)
    \/ \E id \in CallableIds : BringToFront(id)
    \/ \E id \in AllIds : Minimize(id)
    \/ \E p \in Programs : CloseAppInstances(p)
    \/ \E p \in Programs, pinned \in BOOLEAN : PinToggle(p, pinned)

ShellSpec == ShellInit /\ [][ShellNext]_vars

-----------------------------------------------------------------------------
(* Properties *)

\* the set of ids in a list
Elems(z) == {z[i] : i \in DOMAIN z}

\* the list holds no id twice
NoDuplicates(z) == \A i, j \in DOMAIN z : z[i] = z[j] => i = j

\* the tail of a non-empty list, "" for the empty list
Tail_(z) == IF z = <<>> THEN "" ELSE z[Len(z)]

\* C1 (bijection invariant): after any sequence of calls the z-order list
\* holds no id twice and its ids are exactly the keys of the registry.
C1_Bijection ==
    /\ NoDuplicates(z_order)
    /\ Elems(z_order) = Keys(windows)

\* C1 witness: two windows are open and a bring_to_front has put the older
\* one above the newer one.
C1_Witness ==
    /\ last.op = "bring_to_front"
    /\ Len(windows) = 2
    /\ z_order = <<windows[2].window_id, windows[1].window_id>>

\* C2 (create invariant): immediately after every create_window call the
\* returned id is a key of the registry and the last element of the z-order.
C2_CreateInvariant ==
    last.op = "create_window" =>
        /\ last.ret # None
        /\ last.ret[1] \in Keys(windows)
        /\ Tail_(z_order) = last.ret[1]

\* C2 witness: a create_window has just returned the id of a window that was
\* put above an older one.
C2_Witness ==
    /\ last.op = "create_window"
    /\ Len(z_order) = 2
    /\ last.ret = Some(z_order[2])

\* C3 (close atomicity): after close_window(id) the id is in neither the
\* registry nor the z-order, and the taskbar refresh that close_window runs
\* saw it in neither.
C3_CloseAtomicity ==
    last.op = "close_window" =>
        /\ last.arg \notin Keys(windows)
        /\ last.arg \notin Elems(z_order)
        /\ last.arg \notin refresh.keys
        /\ last.arg \notin refresh.stacked

\* C3 witness: a registered window has just been closed while another one
\* stays open.
C3_Witness ==
    /\ last.op = "close_window"
    /\ last.pre # None
    /\ Len(windows) = 1

\* C4 (closing an unknown id): close_window of an id that is not in the
\* registry changes neither the registry, the z-order nor the counter and
\* raises nothing; so a second close of an id changes nothing.
C4_CloseUnknownNoOp ==
    [][(/\ last'.op = "close_window"
        /\ \/ last'.arg \notin Keys(windows)
           \/ last.op = "close_window" /\ last.arg = last'.arg) =>
           /\ windows' = windows
           /\ z_order' = z_order
           /\ window_counter' = window_counter
           /\ raised' = "none"]_vars

\* C4 witness: close_window was called with an id that was not registered,
\* while two windows are open.
C4_Witness ==
    /\ last.op = "close_window"
    /\ last.pre = None
    /\ Len(windows) = 2
    /\ raised = "none"

\* C5 (focus convergence): after bring_to_front(x) of a registered id x the
\* last element of the z-order is x.
C5_FocusConvergence ==
    (last.op = "bring_to_front" /\ last.arg \in Keys(windows)) =>
        Tail_(z_order) = last.arg

\* C5 witness: bring_to_front has just lifted the older of two windows above
\* the newer one.
C5_Witness ==
    /\ last.op = "bring_to_front"
    /\ Len(windows) = 2
    /\ last.arg = windows[1].window_id
    /\ Tail_(z_order) = last.arg

\* C6 (maximize round trip): two toggle_maximize calls in succession on a
\* Normal window leave it Normal with the rectangle it had before the first.
C6_MaximizeRoundTrip ==
    [][(/\ last.op = "toggle_maximize"
        /\ last.pre # None
        /\ StateOf(last.pre[1]) = "Normal"
        /\ last'.op = "toggle_maximize"
        /\ last'.arg = last.arg) =>
           LET w == Entry(windows', last.arg).window
           IN  /\ w.geometry = last.pre[1].geometry
               /\ StateOf(w) = "Normal"]_vars

\* C6 witness: a toggle_maximize has just taken a maximized window back to
\* Normal, to a rectangle other than the maximized one.
C6_Witness ==
    /\ last.op = "toggle_maximize"
    /\ last.pre # None
    /\ StateOf(last.pre[1]) = "Maximized"
    /\ LET w == Entry(windows, last.arg).window
       IN  /\ StateOf(w) = "Normal"
           /\ w.geometry # last.pre[1].geometry

\* C7 (restore symmetry): minimize followed at once by restore of the same
\* window gives back the state it had before minimize, Maximized or Normal,
\* with its rectangle and its saved rectangle.
C7_RestoreSymmetry ==
    [][(/\ last.op = "minimize"
        /\ last.pre # None
        /\ ~last.pre[1].is_minimized
        /\ last'.op = "restore"
        /\ last'.arg = last.arg) =>
           LET w == Entry(windows', last.arg).window
               b == last.pre[1]
           IN  /\ StateOf(w) = StateOf(b)
               /\ w.is_maximized = b.is_maximized
               /\ w.geometry = b.geometry
               /\ w.normal_geometry = b.normal_geometry]_vars

\* C7 witness: restore has just brought a minimized window back as Maximized.
C7_Witness ==
    /\ last.op = "restore"
    /\ last.pre # None
    /\ last.pre[1].is_minimized
    /\ StateOf(Entry(windows, last.arg).window) = "Maximized"

\* the earliest-created open window of a program: the id with the lowest
\* counter; "" when the program has none
Earliest(ws, program_name) ==
    LET ns == {n \in 1..MaxCounter : WindowId(program_name, n) \in Keys(ws)}
    IN  IF ns = {} THEN ""
        ELSE WindowId(program_name, CHOOSE n \in ns : \A m \in ns : n <= m)

\* the focused window: the topmost id of the z-order that is not minimized;
\* "" when there is none
Focused(ws, z) ==
    Tail_(SelectSeq(z, LAMBDA id :
              id \in Keys(ws) /\ ~Entry(ws, id).window.is_minimized))

\* the registered windows of a program
WindowsOf(ws, program_name) ==
    {ws[i].window_id : i \in {k \in DOMAIN ws : ws[k].program_name = program_name}}

\* C8 (single-click toggle): focus_or_restore_program(P) minimizes P's
\* earliest window when that window is shown and focused; a second call
\* shows it again as the last element of the z-order; closing it when it is
\* P's only window takes P out of get_running_programs().
C8_SingleClickToggle ==
    [][/\ (/\ last'.op = "focus_or_restore_program"
           /\ Earliest(windows, last'.arg) # ""
           /\ ~Entry(windows, Earliest(windows, last'.arg)).window.is_minimized
           /\ Focused(windows, z_order) = Earliest(windows, last'.arg)) =>
              Entry(windows', Earliest(windows, last'.arg)).window.is_minimized
       /\ (/\ last.op = "focus_or_restore_program"
           /\ last.pre # None
           /\ ~last.pre[1].is_minimized
           /\ last'.op = "focus_or_restore_program"
           /\ last'.arg = last.arg) =>
              /\ last.ret[1] \in Keys(windows')
              /\ ~Entry(windows', last.ret[1]).window.is_minimized
              /\ Tail_(z_order') = last.ret[1]
       /\ (/\ last'.op = "close_window"
           /\ last'.arg \in Keys(windows)
           /\ WindowsOf(windows, Entry(windows, last'.arg).program_name)
                  = {last'.arg}) =>
              Entry(windows, last'.arg).program_name
                  \notin get_running_programs(windows')]_vars

\* C8 witness: a second single click has just shown the minimized window
\* again, above another open window.
C8_Witness ==
    /\ last.op = "focus_or_restore_program"
    /\ last.pre # None
    /\ last.pre[1].is_minimized
    /\ Len(windows) = 2
    /\ ~Entry(windows, last.ret[1]).window.is_minimized
    /\ Tail_(z_order) = last.ret[1]

\* C9 (focus of a shown, unfocused window): when P's earliest window is not
\* minimized and another shown window lies above it,
\* focus_or_restore_program(P) leaves it shown and makes it the last element
\* of the z-order.
C9_BringsToFront ==
    [][(/\ last'.op = "focus_or_restore_program"
        /\ Earliest(windows, last'.arg) # ""
        /\ ~Entry(windows, Earliest(windows, last'.arg)).window.is_minimized
        /\ Focused(windows, z_order) # Earliest(windows, last'.arg)) =>
           /\ Tail_(z_order') = Earliest(windows, last'.arg)
           /\ ~Entry(windows', Earliest(windows, last'.arg)).window.is_minimized]_vars

\* C10 (frame of focus_or_restore_program): the call touches only the
\* earliest-created open window of P; every other registered window keeps
\* its minimized flag, its maximized flag and its rectangle.
C10_ActsOnEarliestOnly ==
    [][last'.op = "focus_or_restore_program" =>
           /\ Len(windows') = Len(windows)
           /\ \A i \in DOMAIN windows :
                 windows[i].window_id # Earliest(windows, last'.arg) =>
                    /\ windows'[i].window_id = windows[i].window_id
                    /\ windows'[i].window.is_minimized = windows[i].window.is_minimized
                    /\ windows'[i].window.is_maximized = windows[i].window.is_maximized
                    /\ windows'[i].window.geometry = windows[i].window.geometry]_vars

\* C10 witness: the program has two windows, the older one lies under the
\* newer one, and a single click has just minimized the older one only.
C10_Witness ==
    /\ last.op = "focus_or_restore_program"
    /\ Len(windows) = 2
    /\ windows[1].program_name = last.arg
    /\ windows[2].program_name = last.arg
    /\ z_order = <<windows[1].window_id, windows[2].window_id>>
    /\ windows[1].window.is_minimized
    /\ ~windows[2].window.is_minimized

\* C11 (one state at a time): no registered window has its minimized
\* indicator and its maximized indicator set together.
C11_ExclusiveState ==
    \A i \in DOMAIN windows :
        ~(windows[i].window.is_minimized /\ windows[i].window.is_maximized)

\* C12 (ids are never reused): every id create_window returns differs from
\* every id it returned before, whichever windows have been closed since.
C12_IdsNeverReused ==
    [][last'.op = "create_window" =>
           /\ last'.ret # None
           /\ last'.ret[1] \notin issued]_vars

\* C12 witness: a window was created after an earlier one had been closed.
C12_Witness ==
    /\ last.op = "create_window"
    /\ Cardinality(issued) = 2
    /\ Len(windows) = 1

\* the counter in an id
CounterOf(window_id) ==
    CHOOSE n \in 1..MaxCounter : \E p \in Programs : window_id = WindowId(p, n)

\* C13 (windows of a program): get_windows_for_program(P) lists exactly the
\* registered ids whose program_name is P, each once, oldest first.
C13_WindowsForProgram ==
    \A p \in Programs :
        LET r == get_windows_for_program(windows, p)
        IN  /\ NoDuplicates(r)
            /\ Elems(r) = WindowsOf(windows, p)
            /\ \A i, j \in DOMAIN r : i < j => CounterOf(r[i]) < CounterOf(r[j])

\* C13 witness: a program has two windows and the older one has been brought
\* above the newer one, while the other program has none.
C13_Witness ==
    /\ Len(windows) = 2
    /\ windows[1].program_name = windows[2].program_name
    /\ z_order = <<windows[2].window_id, windows[1].window_id>>
    /\ Len(get_windows_for_program(windows, windows[1].program_name)) = 2
    /\ \E p \in Programs : get_windows_for_program(windows, p) = <<>>

\* the programs that have an id in the registry
ProgramsWithIds(ws) ==
    {p \in Programs : \E n \in 1..MaxCounter : WindowId(p, n) \in Keys(ws)}

\* C14 (running programs): get_running_programs() is the set of programs
\* with a registered window, minimized or not, and a program leaves it
\* exactly in the close_window call that closes its last window.
C14_RunningPrograms ==
    [][/\ get_running_programs(windows') = ProgramsWithIds(windows')
       /\ \A p \in Programs :
             (p \in get_running_programs(windows)
              /\ p \notin get_running_programs(windows'))
             <=> (/\ last'.op = "close_window"
                  /\ last'.arg \in Keys(windows)
                  /\ WindowsOf(windows, p) = {last'.arg})]_vars

\* C14 witness: the only window of a program has just been minimized and the
\* program still counts as running.
C14_Witness ==
    /\ last.op = "minimize"
    /\ Len(windows) = 1
    /\ windows[1].window.is_minimized
    /\ get_running_programs(windows) = {windows[1].program_name}

\* C15 (events of a closed window): once a window has been closed, a call
\* that carries its id (a repeated closed signal, a focused signal that runs
\* bring_to_front, minimize or restore of the closed window object and the
\* signals they emit) changes neither the registry nor the z-order and
\* raises nothing.
C15_StaleEventsNoOp ==
    [][(/\ last'.op \in {"close_window", "bring_to_front",
                         "stale_minimize", "stale_restore"}
        /\ last'.arg \in issued
        /\ last'.arg \notin Keys(windows)) =>
           /\ windows' = windows
           /\ z_order' = z_order
           /\ raised' = "none"]_vars

\* C15 witness: restore has just run on the object of a closed window while
\* another window is open.
C15_Witness ==
    /\ last.op = "stale_restore"
    /\ last.arg \in issued
    /\ last.arg \notin Keys(windows)
    /\ Len(windows) = 1
    /\ raised = "none"

\* C16 (saved geometry): a registered window has a saved geometry exactly
\* when it has been maximized at least once since its creation.
C16_SavedGeometry ==
    \A i \in DOMAIN windows :
        (windows[i].window.normal_geometry # None)
            <=> (windows[i].window_id \in maximized_once)

\* C16 witness: of two open windows one has been maximized and un-maximized
\* and keeps a saved geometry, the other was never maximized and has none.
C16_Witness ==
    /\ Len(windows) = 2
    /\ \E i, j \in DOMAIN windows :
          /\ windows[i].window_id \in maximized_once
          /\ ~windows[i].window.is_maximized
          /\ windows[i].window.normal_geometry # None
          /\ windows[j].window_id \notin maximized_once
          /\ windows[j].window.normal_geometry = None

\* C17 (un-maximize), as claimed: toggle_maximize of a Maximized window sets
\* the rectangle back from the saved geometry, leaves the saved geometry
\* unset and the window Normal.
C17_UnmaximizeClearsSaved ==
    [][(/\ last'.op = "toggle_maximize"
        /\ StateOf(Entry(windows, last'.arg).window) = "Maximized") =>
           LET b == Entry(windows, last'.arg).window
               w == Entry(windows', last'.arg).window
           IN  /\ b.normal_geometry # None
               /\ w.geometry = b.normal_geometry[1]
               /\ w.normal_geometry = None
               /\ StateOf(w) = "Normal"]_vars

\* C17 (un-maximize), as amended: toggle_maximize of a Maximized window sets
\* the rectangle back from the saved geometry, keeps the saved geometry as
\* it is and leaves the window Normal.
C17_UnmaximizeKeepsSaved ==
    [][(/\ last'.op = "toggle_maximize"
        /\ StateOf(Entry(windows, last'.arg).window) = "Maximized") =>
           LET b == Entry(windows, last'.arg).window
               w == Entry(windows', last'.arg).window
           IN  /\ b.normal_geometry # None
               /\ w.geometry = b.normal_geometry[1]
               /\ w.normal_geometry = b.normal_geometry
               /\ StateOf(w) = "Normal"]_vars

\* C17 witness: toggle_maximize has just un-maximized a window, which is
\* back at its saved rectangle and still holds it.
C17_Witness ==
    /\ last.op = "toggle_maximize"
    /\ last.pre # None
    /\ StateOf(last.pre[1]) = "Maximized"
    /\ LET w == Entry(windows, last.arg).window
       IN  /\ StateOf(w) = "Normal"
           /\ w.normal_geometry = Some(w.geometry)

\* C18 (frame of minimize): minimize leaves the z-order and the registry as
\* they were, but for the minimized indicator and the visibility of the
\* window it is called on.
C18_MinimizeFrame ==
    [][last'.op = "minimize" =>
           /\ z_order' = z_order
           /\ Len(windows') = Len(windows)
           /\ \A i \in DOMAIN windows :
                 IF windows[i].window_id = last'.arg
                 THEN /\ windows'[i].window.is_minimized
                      /\ ~windows'[i].window.visible
                      /\ [windows'[i] EXCEPT
                            !.window.is_minimized = windows[i].window.is_minimized,
                            !.window.visible = windows[i].window.visible]
                         = windows[i]
                 ELSE windows'[i] = windows[i]]_vars

\* C18 witness: the lower of two windows, a maximized one, has just been
\* minimized and is still the first id of the z-order.
C18_Witness ==
    /\ last.op = "minimize"
    /\ Len(z_order) = 2
    /\ z_order[1] = last.arg
    /\ Entry(windows, last.arg).window.is_minimized
    /\ Entry(windows, last.arg).window.is_maximized

\* C19 (restore): after restore of a minimized registered window the window
\* is not minimized and its id is the last element of the z-order.
C19_RestoreOnTop ==
    (/\ last.op = "restore"
     /\ last.pre # None
     /\ last.pre[1].is_minimized) =>
        /\ last.arg \in Keys(windows)
        /\ ~Entry(windows, last.arg).window.is_minimized
        /\ Tail_(z_order) = last.arg

\* C19 witness: restore has just shown the older of two windows, which had
\* been minimized, above the newer one.
C19_Witness ==
    /\ last.op = "restore"
    /\ last.pre # None
    /\ last.pre[1].is_minimized
    /\ Len(windows) = 2
    /\ last.arg = windows[1].window_id
    /\ z_order = <<windows[2].window_id, windows[1].window_id>>

\* a lies under b in the list
Under(z, a, b) == \E i, j \in DOMAIN z : i < j /\ z[i] = a /\ z[j] = b

\* the window a call is aimed at
TargetOf(call) ==
    IF call.op = "focus_or_restore_program"
    THEN IF call.ret # None THEN call.ret[1] ELSE ""
    ELSE call.arg

C22_PresenterNotified ==
    (\/ last.op = "create_window"
     \/ last.op = "close_window" /\ last.pre # None
     \/ last.op = "minimize") =>
        last.notified >= 1

\* the visible managed window Qt draws above the other ones
DrawnOnTop(stk, ws) ==
    LET shown == SelectSeq(stk, LAMBDA id :
                     id \in Keys(ws) /\ Entry(ws, id).window.visible)
    IN  Tail_(shown)

\* the last id of the z-order whose window is not minimized
LastNotMinimized(z, ws) ==
    LET up == SelectSeq(z, LAMBDA id :
                  id \in Keys(ws) /\ ~Entry(ws, id).window.is_minimized)
    IN  Tail_(up)

\* C28 (stacking refines the z-order): the order in which Qt stacks the
\* managed windows is the z-order list, and the window drawn on top is the
\* last id of the z-order that is not minimized.
C28_StackingIsZOrder ==
    /\ stacking = z_order
    /\ DrawnOnTop(stacking, windows) = LastNotMinimized(z_order, windows)

\* C28 witness: the older of two windows was brought above the newer one and
\* then minimized, so the newer one, first in the z-order, is drawn on top.
C28_Witness ==
    /\ Len(windows) = 2
    /\ z_order = <<windows[2].window_id, windows[1].window_id>>
    /\ stacking = z_order
    /\ windows[1].window.is_minimized
    /\ DrawnOnTop(stacking, windows) = windows[2].window_id

\* C29 (visible iff not minimized): every registered window is visible
\* exactly when its minimized indicator is false, and focus_or_restore_program
\* never meets a window that is neither minimized nor visible.
C29_VisibleIffNotMinimized ==
    /\ \A i \in DOMAIN windows :
          windows[i].window.visible = ~windows[i].window.is_minimized
    /\ (last.op = "focus_or_restore_program" /\ last.pre # None) =>
          (last.pre[1].is_minimized \/ last.pre[1].visible)

\* C29 witness: one window is minimized and hidden, the other one is shown,
\* after focus_or_restore_program has acted on a window.
C29_Witness ==
    /\ last.op = "focus_or_restore_program"
    /\ last.pre # None
    /\ \E i, j \in DOMAIN windows :
          /\ windows[i].window.is_minimized /\ ~windows[i].window.visible
          /\ ~windows[j].window.is_minimized /\ windows[j].window.visible

\* C23 (taskbar icon set): after a program launch, a chrome close, a
\* close-all and a pin toggle, the taskbar holds one icon for every program
\* that is running or pinned and no other, and an icon's is_running flag is
\* set exactly when its program is running.
C23_TaskbarIcons ==
    last.op \in {"create_window", "close_window", "close_app_instances",
                 "on_pin_toggled"} =>
        /\ DOMAIN icons = get_running_programs(windows) \cup pinned_apps
        /\ \A name \in DOMAIN icons :
              icons[name].is_running = (name \in get_running_programs(windows))

\* C23 witness: after a close-all the taskbar shows a running program that
\* is not pinned and a pinned program that is not running.
C23_Witness ==
    /\ last.op = "close_app_instances"
    /\ \E a, b \in DOMAIN icons :
          /\ icons[a].is_running /\ a \notin pinned_apps
          /\ ~icons[b].is_running /\ b \in pinned_apps /\ b = last.arg

\* the ids of the list whose window belongs to another program than name
OthersOf(z, ws, name) ==
    SelectSeq(z, LAMBDA id :
        id \in Keys(ws) /\ Entry(ws, id).program_name # name)

JustMaximized ==
    /\ last.op = "toggle_maximize"
    /\ last.pre # None
    /\ ~last.pre[1].is_maximized

\* C27 as the claim states it (toggle_maximize from Normal): the geometry is
\* saved, the state is Maximized, and the rectangle is inset 10px from the
\* left and right desktop edges with its bottom edge 90px above the
\* desktop's bottom edge.
C27_MaximizedBottom90 ==
    JustMaximized =>
        LET w == Entry(windows, last.arg).window
            g == w.geometry
        IN  /\ w.normal_geometry = Some(last.pre[1].geometry)
            /\ w.is_maximized
            /\ g.x = 10
            /\ desktop[1] - (g.x + g.w) = 10
            /\ desktop[2] - (g.y + g.h) = 90

\* C27 amended (toggle_maximize from Normal): on a desktop of at least
\* 420 x 390 the geometry is saved, the state is Maximized, and the rectangle
\* is inset 10px from the left, right and top desktop edges, with its bottom
\* edge 80px above the desktop's bottom edge; on a smaller desktop the
\* rectangle starts at (10, 10) and keeps the minimum size in the dimension
\* that falls short.
C27_MaximizedBottom80 ==
    JustMaximized =>
        LET w == Entry(windows, last.arg).window
            g == w.geometry
        IN  /\ w.normal_geometry = Some(last.pre[1].geometry)
            /\ w.is_maximized
            /\ g.x = 10 /\ g.y = 10
            /\ IF desktop[1] >= 420
               THEN desktop[1] - (g.x + g.w) = 10
               ELSE g.w = 400
            /\ IF desktop[2] >= 390
               THEN desktop[2] - (g.y + g.h) = 80
               ELSE g.h = 300

\* C27 witness: one of two windows has just been maximized on the
\* 1366 x 768 desktop.
C27_Witness ==
    /\ JustMaximized
    /\ desktop = <<1366, 768>>
    /\ Entry(windows, last.arg).window.geometry = Rect(10, 10, 1346, 678)
    /\ Len(windows) = 2

\* where a window is
PositionOf(w) == <<w.geometry.x, w.geometry.y>>

\* C25 (cascade position): create_window places the new window at
\* (100 + 30*k, 80 + 30*k), k being the number of windows registered just
\* before the call, modulo 10.
C25_CascadePosition ==
    [][last'.op = "create_window" =>
          LET k == Len(windows) % 10
          IN  PositionOf(Entry(windows', last'.ret[1]).window)
                  = <<100 + 30 * k, 80 + 30 * k>>]_vars

\* C25 witness: the eleventh open window has just been created, at the
\* position of the first one.
C25_Witness ==
    /\ last.op = "create_window"
    /\ Len(windows) = 11
    /\ PositionOf(windows[11].window) = <<100, 80>>
    /\ PositionOf(windows[10].window) = <<370, 350>>

\* C26 (no perfect overlap): a newly created window is not placed at the
\* position of the most recently created window that is still open.
C26_NoPerfectOverlap ==
    (last.op = "create_window" /\ Len(windows) >= 2) =>
        PositionOf(windows[Len(windows)].window)
            # PositionOf(windows[Len(windows) - 1].window)

\* the times of the presses, in order
PressTimes ==
    LET ps == SelectSeq(events, LAMBDA e : e.kind = "press")
    IN  [i \in DOMAIN ps |-> ps[i].at]

\* the number of signals of the kind emitted from time from up to, and not
\* including, time to
Emitted(kind, from, to) ==
    Len(SelectSeq(events, LAMBDA e : e.kind = kind /\ e.at >= from /\ e.at < to))

\* C30 (double click): of two presses less than 500 ms apart, the first one
\* not being the second press of an earlier pair, the second one emits
\* exactly one double_clicked and neither emits a clicked; a press with no
\* other press within 500 ms emits exactly one clicked, 300 ms later.
C30_DoubleClickExclusive ==
    LET p     == PressTimes
        n     == Len(p)
        far   == 1000 + 100 * (MaxTicks + 1)
        nxt(i) == IF i < n THEN p[i + 1] ELSE far
        fresh(i) == i = 1 \/ p[i] - p[i - 1] >= 500
    IN  /\ \A i \in 1..(n - 1) :
              (fresh(i) /\ p[i + 1] - p[i] < 500) =>
                  /\ Emitted("double_clicked", p[i + 1], p[i + 1] + 1) = 1
                  /\ Emitted("clicked", p[i], nxt(i + 1)) = 0
        /\ \A i \in 1..n :
              (fresh(i) /\ nxt(i) - p[i] >= 500 /\ clock > p[i] + 300) =>
                  /\ Emitted("clicked", p[i], nxt(i)) = 1
                  /\ Emitted("clicked", p[i] + 300, p[i] + 301) = 1

\* C21 (one thread calls the manager): a step of a worker thread's run()
\* changes nothing but the queue of posted signals and the worker's own
\* position; the registry, the counter and the z-order change only in the
\* shell thread's create_window and close_window.
C21_OnlyShellThread ==
    [][/\ last'.op = "run" =>
             /\ UNCHANGED <<windows, window_counter, z_order, stacking,
                            refresh, icons, pinned_apps, stale>>
             /\ Len(posted') = Len(posted) + 1
             /\ posted'[Len(posted')].from = last'.arg
       /\ <<windows, window_counter, z_order>>'
              # <<windows, window_counter, z_order>> =>
             last'.op \in {"create_window", "close_window"}]_vars

\* C21 witness: while two windows are open, the download thread has just
\* posted its finished signal.
C21_Witness ==
    /\ last.op = "run"
    /\ last.arg = "DownloadThread"
    /\ workers["DownloadThread"] = "done"
    /\ posted # <<>>
    /\ posted[Len(posted)].signal = "finished"
    /\ Len(windows) = 2

====
